---- MODULE Spec2Model ----
(***************************************************************************)
(* A model of daily_arxiv.py: the configuration loader, the paper fetcher  *)
(* with its code-link resolver, the category updater (fetch, load, merge,  *)
(* persist, render) and the driver that runs it for every category.        *)
(*                                                                         *)
(* Python values are modelled by tagged records so that values of          *)
(* different Python types can be compared: a str whose characters matter   *)
(* (an identifier, a date) is a sequence of one-character strings, a dict  *)
(* is a sequence of <<key, value>> pairs with distinct keys in insertion   *)
(* order, None is [k |-> "none"].                                          *)
(***************************************************************************)
EXTENDS Integers, Sequences, FiniteSets, TLC

\* ------------------------------------------------------------------ bounds
\* Number of categories of the configuration.
NumCats == 2
\* max_results of the configuration (the cap on the hits of one search).
MaxResults == 2
\* Largest number of records of a papers.json present before the first run.
MaxStored == 1
\* Largest number of records a stubbed fetch hands to the updater.
MaxFetched == 2
Cats == 1..NumCats

\* --------------------------------------------------------- Python values
PyNone == [k |-> "none"]
PyUnset == [k |-> "unset"]
PyDict(d) == [k |-> "dict", v |-> d]
IsDict(x) == x.k = "dict"

\* dict: a sequence of <<key, value>> pairs, keys distinct, insertion order.
Keys(d) == {d[i][1] : i \in DOMAIN d}
Get(d, key) == d[CHOOSE i \in DOMAIN d : d[i][1] = key][2]

\* d[key] = value: an existing key keeps its position, a new key is appended.
DictSet(d, key, value) ==
    IF key \in Keys(d)
    THEN [i \in DOMAIN d |-> IF d[i][1] = key THEN <<key, value>> ELSE d[i]]
    ELSE Append(d, <<key, value>>)

\* {**d, **e}: the entries of e are written into d, in e's order.
RECURSIVE DictUpdate(_, _)
DictUpdate(d, e) ==
    IF e = <<>> THEN d
    ELSE DictUpdate(DictSet(d, e[1][1], e[1][2]), Tail(e))

\* ------------------------------------------------------------- constants
\* ARXIV_URL, and the path of the abstract page that line 73 appends to it.
ARXIV_URL == "http://arxiv.org/"

\* ---------------------------------------------------- external responses
PyStr(s) == [k |-> "str", v |-> s]
PyArray == [k |-> "array"]
\* The value of an expression that raised.
Exc == [k |-> "exc"]

\* Short identifiers result.get_short_id() can give: two versions of one
\* new-style paper, and an old-style identifier whose archive name holds the
\* letter v (as in solv-int/9712009v1).
Ids ==
    { <<"1", "v", "1">>,
      <<"1", "v", "2">>,
      <<"s", "v", "/", "1", "v", "1">> }

\* result.updated of each of them, as (year, month, day): a version of a
\* paper has one date; two of the papers share theirs.
UpdatedOf(id) ==
    IF id = <<"1", "v", "2">> THEN <<2024, 11, 30>>
    ELSE IF id = <<"s", "v", "/", "1", "v", "1">> THEN <<1997, 12, 9>>
    ELSE <<2024, 1, 2>>

\* A hit of the search: the fields of arxiv.Result that fetch_papers reads.
Result(id) ==
    [ id      |-> id,
      updated |-> UpdatedOf(id),
      title   |-> "Example Paper",
      authors |-> <<"Jane Doe", "Li Wei">>,
      summary |-> <<"Line1", "\n", "Line2">> ]

Results == { Result(id) : id \in Ids }

CodeUrl == "https://github.com/x/y"

\* What requests.get(code_url).json() can do: raise (network error, body
\* that is not JSON), or give a JSON value of any shape.
Responses ==
    { [t |-> "raise"] }
    \cup
    { [t |-> "json", body |-> b] :
        b \in { PyArray,
                PyDict(<<>>),
                PyDict(<< <<"official", PyNone>> >>),
                PyDict(<< <<"official", PyStr("none")>> >>),
                PyDict(<< <<"official", PyDict(<<>>)>> >>),
                PyDict(<< <<"official", PyDict(<< <<"url", PyNone>> >>)>> >>),
                PyDict(<< <<"official", PyDict(<< <<"url", PyStr("")>> >>)>> >>),
                PyDict(<< <<"official", PyDict(<< <<"url", PyStr(CodeUrl)>> >>)>> >>) } }

\* ------------------------------------------------------- pure functions
\* x.get(key, default): only a dict has the method; anything else raises
\* AttributeError.
MethodGet(x, key, default) ==
    IF x.k = "dict"
    THEN IF key \in Keys(x.v) THEN Get(x.v, key) ELSE default
    ELSE Exc

\* get_code_link as written with its except clause removed: the error of
\* the lookup reaches the caller.
GetCodeLinkNoExcept(response) ==
    LET r == IF response.t = "raise" THEN Exc ELSE response.body
        o == IF r = Exc THEN Exc ELSE MethodGet(r, "official", PyDict(<<>>))
    IN  IF o = Exc THEN Exc ELSE MethodGet(o, "url", PyNone)

\* get_code_link: response.get('official', {}).get('url'), and None when
\* anything in the try block raised.
get_code_link(response) ==
    LET r == IF response.t = "raise" THEN Exc ELSE response.body
        o == IF r = Exc THEN Exc ELSE MethodGet(r, "official", PyDict(<<>>))
        u == IF o = Exc THEN Exc ELSE MethodGet(o, "url", PyNone)
    IN  IF u = Exc THEN PyNone ELSE u

\* Python truthiness of the values a lookup can give.
Truthy(x) ==
    /\ x # PyNone
    /\ x # PyStr("")
    /\ x # PyDict(<<>>)

\* x or "null"
OrNull(x) == IF Truthy(x) THEN x ELSE PyStr("null")

\* s.split(sep)[0]: the part of s before the first sep, all of s without one.
SplitFirst(s, sep) ==
    IF \E i \in DOMAIN s : s[i] = sep
    THEN SubSeq(s, 1, (CHOOSE i \in DOMAIN s :
                          /\ s[i] = sep
                          /\ \A j \in 1..(i - 1) : s[j] # sep) - 1)
    ELSE s

\* clean_id = paper_id.split('v')[0]
clean_id(paper_id) == SplitFirst(paper_id, "v")

\* pdf_url = f"{ARXIV_URL}abs/{clean_id}"
pdf_url(cid) == <<ARXIV_URL, "abs/">> \o cid

\* get_authors with first_author False: ", ".join(a.name for a in authors)
RECURSIVE get_authors(_)
get_authors(authors) ==
    IF authors = <<>> THEN <<>>
    ELSE IF Len(authors) = 1 THEN authors
    ELSE <<authors[1], ", ">> \o get_authors(Tail(authors))

\* result.summary.replace("\n", " ")
abstract(summary) ==
    [i \in DOMAIN summary |-> IF summary[i] = "\n" THEN " " ELSE summary[i]]

Digit(n) == <<"0", "1", "2", "3", "4", "5", "6", "7", "8", "9">>[n + 1]
Pad2(n) == <<Digit(n \div 10), Digit(n % 10)>>
Pad4(n) == Pad2(n \div 100) \o Pad2(n % 100)

\* str(update_time): the ISO form YYYY-MM-DD of a date.
DateStr(d) == Pad4(d[1]) \o <<"-">> \o Pad2(d[2]) \o <<"-">> \o Pad2(d[3])

\* The record of lines 80-87 for one hit and the code link found for it.
PaperRecord(result, code_link) ==
    [ title    |-> result.title,
      authors  |-> get_authors(result.authors),
      abstract |-> abstract(result.summary),
      pdf      |-> pdf_url(clean_id(result.id)),
      code     |-> code_link,
      updated  |-> DateStr(result.updated) ]

\* ------------------------------------------------------ Markdown renderer
\* Code points order the characters of a date string: '-' before the digits.
CharOrder == <<"-", "0", "1", "2", "3", "4", "5", "6", "7", "8", "9">>
Ord(c) == CHOOSE i \in DOMAIN CharOrder : CharOrder[i] = c

\* a < b for two Python strings: the first differing character decides, a
\* proper prefix is smaller.
RECURSIVE StrLess(_, _)
StrLess(a, b) ==
    IF b = <<>> THEN FALSE
    ELSE IF a = <<>> THEN TRUE
    ELSE IF a[1] = b[1] THEN StrLess(Tail(a), Tail(b))
    ELSE Ord(a[1]) < Ord(b[1])

\* The place of x in a list sorted without reverse=True: ascending order.
InsertAsc(sorted, x) ==
    LET larger == {i \in DOMAIN sorted : StrLess(x.updated, sorted[i].updated)}
        at == IF larger = {} THEN Len(sorted) + 1
              ELSE CHOOSE i \in larger : \A j \in larger : i <= j
    IN  SubSeq(sorted, 1, at - 1) \o <<x>> \o SubSeq(sorted, at, Len(sorted))

\* The place of x in a list sorted with reverse=True: before the first
\* element whose key is smaller, so equal keys keep their order (stable).
InsertDesc(sorted, x) ==
    LET smaller == {i \in DOMAIN sorted : StrLess(sorted[i].updated, x.updated)}
        at == IF smaller = {} THEN Len(sorted) + 1
              ELSE CHOOSE i \in smaller : \A j \in smaller : i <= j
    IN  SubSeq(sorted, 1, at - 1) \o <<x>> \o SubSeq(sorted, at, Len(sorted))

\* data.values()
Values(d) == [i \in DOMAIN d |-> d[i][2]]

\* sorted(papers, key=lambda x: x['updated'], reverse=True)
RECURSIVE SortedByUpdated(_, _)
SortedByUpdated(sorted, papers) ==
    IF papers = <<>> THEN sorted
    ELSE SortedByUpdated(InsertDesc(sorted, papers[1]), Tail(papers))

\* One row of the table, lines 140-142: the cells in order.
Row(paper) ==
    << paper.updated,
       paper.title,
       paper.authors,
       <<"[PDF](">> \o paper.pdf \o <<")">>,
       IF paper.code # PyStr("null")
       THEN <<"[Code](", paper.code.v, ")">>
       ELSE <<"null">> >>

\* The four lines before the rows: title, date line, column names, rule.
Header(category_name) ==
    << <<"# ", category_name, " Papers">>,
       <<"*Last Updated: ", "today", "*\n">>,
       <<"| Date | Title | Authors | PDF | Code |">>,
       <<"|------|-------|---------|-----|------|">> >>

\* generate_markdown: the list `content` that is joined and written.
generate_markdown(data, category_name) ==
    LET sorted_papers == SortedByUpdated(<<>>, Values(data))
    IN  Header(category_name)
        \o [i \in DOMAIN sorted_papers |-> Row(sorted_papers[i])]

\* ------------------------------------------------------------ config file
\* An entry of `categories`: the keys it has, among query and output_dir.
\* The output directory of category c is the path <<c>>.
Entry(c, keys) ==
    [f \in keys |-> IF f = "query" THEN <<"cat:", c>> ELSE <<c>>]

EntryShapes == { {"query", "output_dir"}, {"query"}, {"output_dir"} }

\* The parsed documents: a mapping with or without `categories` (one entry
\* per category) and with or without `max_results`; or no mapping at all
\* (an empty file parses to None).
Documents ==
    { PyNone }
    \cup
    { [k |-> "map", v |-> [f \in {"max_results"} |-> MaxResults]] }
    \cup
    { [k |-> "map", v |-> [f \in {"categories"} |-> [c \in Cats |-> Entry(c, sh[c])]]] :
        sh \in [Cats -> EntryShapes] }
    \cup
    { [k |-> "map",
       v |-> [f \in {"categories", "max_results"} |->
                IF f = "max_results" THEN MaxResults
                ELSE [c \in Cats |-> Entry(c, sh[c])]]] :
        sh \in [Cats -> EntryShapes] }

ConfigFiles ==
    { [file |-> "missing"], [file |-> "unparseable"] }
    \cup { [file |-> "yaml", doc |-> d] : d \in Documents }

\* os.path.join(output_dir, name)
PathJoin(dir, name) == Append(dir, name)

\* Lines 31-34 for one entry: the two derived paths are added.
WithPaths(cat) ==
    [f \in DOMAIN cat \cup {"json_path", "md_path"} |->
        IF f = "json_path" THEN PathJoin(cat["output_dir"], "papers.json")
        ELSE IF f = "md_path" THEN PathJoin(cat["output_dir"], "README.md")
        ELSE cat[f]]

\* load_config that takes the entries as they are and derives no path from
\* a missing output_dir instead of raising.
LoadConfigLenient(file) ==
    IF file.file # "yaml" THEN Exc
    ELSE IF file.doc.k # "map" THEN Exc
    ELSE IF "categories" \notin DOMAIN file.doc.v THEN Exc
    ELSE [k |-> "map", v |-> file.doc.v]

\* load_config: open and yaml.safe_load raise for a missing or unparseable
\* file, config['categories'] for a document without it, cat['output_dir']
\* for an entry without it; nothing else is looked at.
load_config(file) ==
    IF file.file # "yaml" THEN Exc
    ELSE IF file.doc.k # "map" THEN Exc
    ELSE IF "categories" \notin DOMAIN file.doc.v THEN Exc
    ELSE IF \E c \in DOMAIN file.doc.v["categories"] :
                "output_dir" \notin DOMAIN file.doc.v["categories"][c] THEN Exc
    ELSE [k |-> "map",
          v |-> [f \in DOMAIN file.doc.v |->
                    IF f = "categories"
                    THEN [c \in DOMAIN file.doc.v[f] |-> WithPaths(file.doc.v[f][c])]
                    ELSE file.doc.v[f]]]

\* ------------------------------------------------------------------ files
NoFile == [k |-> "nofile"]
\* A papers.json that is not valid JSON.
Corrupt == [k |-> "corrupt"]
\* A papers.json that is valid JSON but holds an array.
ArrayFile == [k |-> "arrayfile"]
\* json.dump(data, f, indent=2): the text of a JSON object, keys in order.
JsonDump(data) == [k |-> "object", v |-> data]

\* json.load(f): JSONDecodeError, or the value the text stands for. Every
\* key and every field of a record is a str, which dump and load keep.
JsonLoad(file) ==
    IF file.k = "object" THEN PyDict(file.v)
    ELSE IF file.k = "arrayfile" THEN PyArray
    ELSE Exc

\* README.md with the lines of `content` joined by newlines.
MdFile(content) == [k |-> "file", content |-> content]

\* ------------------------------------------------------ category updater
\* The statements of update_category_data in order: makedirs, fetch_papers,
\* the load of the existing store, the merge, the dump, generate_markdown.
StepAfterRenderFirst(step) ==
    CASE step = "mkdir"   -> "fetch"
      [] step = "fetch"   -> "load"
      [] step = "load"    -> "merge"
      [] step = "merge"   -> "render"
      [] step = "render"  -> "persist"
      [] step = "persist" -> "return"

StepAfter(step) ==
    CASE step = "mkdir"   -> "fetch"
      [] step = "fetch"   -> "load"
      [] step = "load"    -> "merge"
      [] step = "merge"   -> "persist"
      [] step = "persist" -> "render"
      [] step = "render"  -> "return"

\* A merge in which the fetched records replace the whole store.
MergedDataFetchedOnly(papers, existing_data) ==
    IF papers.k = "dict" /\ existing_data.k = "dict"
    THEN PyDict(papers.v)
    ELSE Exc

\* A merge that appends the existing entries without looking for the key.
MergedDataNoDedup(papers, existing_data) ==
    IF papers.k = "dict" /\ existing_data.k = "dict"
    THEN PyDict(papers.v \o existing_data.v)
    ELSE Exc

\* merged_data = {**papers, **existing_data}: TypeError unless both are
\* mappings; the entries of papers first, then those of existing_data
\* written over them.
MergedData(papers, existing_data) ==
    IF papers.k = "dict" /\ existing_data.k = "dict"
    THEN PyDict(DictUpdate(DictUpdate(<<>>, papers.v), existing_data.v))
    ELSE Exc

\* A driver without the try block: the exception ends the process.
OnExceptionUncaught == "aborted"

\* main's except clause: the error is logged and the loop goes on.
OnException == "main"

\* ------------------------------------------------------------------ state
VARIABLES
    configFile,     \* the config file on disk
    config,         \* the value load_config returned
    pc,             \* where the program is
    cur,            \* the category main is processing (0 before the first)
    dirs,           \* the output directories that exist
    json,           \* papers.json of each category
    md,             \* README.md of each category
    papers,         \* update_category_data: what fetch_papers returned
    existing_data,  \* update_category_data: the loaded store
    merged_data,    \* update_category_data: the merge
    fpapers,        \* fetch_papers: its local dict `papers`
    hits,           \* fetch_papers: the identifiers of the hits so far
    lookups,        \* the identifier each code-link lookup was made for
    usable,         \* whether each lookup's response held an official url
    searched,       \* the categories a search was issued for
    outcome,        \* main's log line for each category
    done,           \* the statements of the current call that have completed
    before,         \* the two files of the category when the call began
    lastFetched,    \* what the call before fetched, if it wrote the store
    repeat,         \* this call fetched the same as the call before
    stubs           \* which stub stands for fetch_papers, if one does

vars ==
    << configFile, config, pc, cur, dirs, json, md, papers, existing_data,
       merged_data, fpapers, hits, lookups, usable, searched, outcome, done,
       before, lastFetched, repeat, stubs >>

env == << configFile, stubs >>
files == << dirs, json, md >>
locals == << papers, existing_data, merged_data >>
fetchVars == << fpapers, hits, lookups, usable >>
history == << lastFetched, repeat >>

\* The entry of the category being processed, and its directory.
CatConfig == config.v["categories"][cur]
DirOf(path) == path[1]
Range(s) == {s[i] : i \in DOMAIN s}

NotRun == [ok |-> FALSE, at |-> "pending"]
NoFiles == [json |-> NoFile, md |-> NoFile]

\* An exception leaves update_category_data: its locals are gone, main logs
\* the failure and goes where its handler sends it.
Raise(step) ==
    /\ pc' = OnException
    /\ outcome' = [outcome EXCEPT ![cur] = [ok |-> FALSE, at |-> step]]
    /\ papers' = PyUnset
    /\ existing_data' = PyUnset
    /\ merged_data' = PyUnset
    /\ fpapers' = <<>>
    /\ hits' = <<>>
    /\ lookups' = <<>>
    /\ usable' = <<>>
    /\ UNCHANGED done

\* The statement `step` is done: on to the next one, or back to main, which
\* logs the success.
Advance(step) ==
    /\ done' = done \cup {step}
    /\ IF StepAfter(step) = "return"
       THEN /\ pc' = "main"
            /\ outcome' = [outcome EXCEPT ![cur] = [ok |-> TRUE, at |-> "return"]]
       ELSE /\ pc' = StepAfter(step)
            /\ UNCHANGED outcome

\* ---------------------------------------------------------------- actions
\* Lines 166-167: load_config; an exception ends the process before main.
LoadConfig ==
    /\ pc = "start"
    /\ config' = load_config(configFile)
    /\ pc' = IF config' = Exc THEN "aborted" ELSE "main"
    /\ UNCHANGED << env, cur, files, locals, fetchVars, searched, outcome,
                    done, before, history >>

\* main, lines 152-155: the next category of the configuration, if any, and
\* the call of update_category_data for it.
MainNext ==
    /\ pc = "main"
    /\ IF cur + 1 \in DOMAIN config.v["categories"]
       THEN /\ cur' = cur + 1
            /\ pc' = "mkdir"
            /\ outcome' = [outcome EXCEPT ![cur + 1] = [ok |-> FALSE, at |-> "running"]]
            /\ before' = [json |-> json[cur + 1], md |-> md[cur + 1]]
       ELSE /\ pc' = "exit"
            /\ before' = NoFiles
            /\ UNCHANGED << cur, outcome >>
    /\ done' = {}
    /\ repeat' = FALSE
    /\ papers' = PyUnset
    /\ existing_data' = PyUnset
    /\ merged_data' = PyUnset
    /\ UNCHANGED << env, config, files, fetchVars, searched, lastFetched >>

\* Line 96: os.makedirs(output_dir, exist_ok=True); OSError when the
\* directory cannot be made.
MakeDirs ==
    /\ pc = "mkdir"
    /\ \/ /\ "output_dir" \in DOMAIN CatConfig
          /\ dirs' = dirs \cup {DirOf(CatConfig["output_dir"])}
          /\ Advance("mkdir")
          /\ UNCHANGED << locals, fetchVars >>
       \/ /\ Raise("mkdir")
          /\ UNCHANGED dirs
    /\ UNCHANGED << env, config, cur, json, md, searched, before, history >>

\* The arguments of the call of lines 99-102: KeyError without `query` or
\* `max_results`.
FetchArgsOk ==
    /\ "query" \in DOMAIN CatConfig
    /\ "max_results" \in DOMAIN config.v

\* Lines 99-102 and 59-64: the arguments are read, then fetch_papers makes
\* its client and search. The name Client is bound by nothing in the file:
\* where it is unbound the call raises NameError, where the environment
\* binds it the search is issued.
FetchCall ==
    /\ pc = "fetch"
    /\ \/ /\ FetchArgsOk
          /\ pc' = "results"
          /\ searched' = searched \cup {cur}
          /\ fpapers' = <<>>
          /\ hits' = <<>>
          /\ lookups' = <<>>
          /\ usable' = <<>>
          /\ UNCHANGED << outcome, done, locals >>
       \/ /\ Raise("fetch")
          /\ UNCHANGED searched
    /\ UNCHANGED << env, config, cur, files, before, history >>

\* The response holds a non-empty official url.
HasOfficialUrl(response) ==
    /\ response.t = "json"
    /\ response.body.k = "dict"
    /\ "official" \in Keys(response.body.v)
    /\ Get(response.body.v, "official").k = "dict"
    /\ "url" \in Keys(Get(response.body.v, "official").v)
    /\ Get(Get(response.body.v, "official").v, "url").k = "str"
    /\ Get(Get(response.body.v, "official").v, "url").v # ""

\* Lines 67-87 for one hit: the identifier is cleaned, the code link looked
\* up, the record stored under the full identifier. The search gives each
\* identifier once.
FetchHit ==
    /\ pc = "results"
    /\ Len(hits) < config.v["max_results"]
    /\ \E result \in Results, response \in Responses :
          /\ result.id \notin Range(hits)
          /\ LET paper_id == result.id
                 link == get_code_link(response)
             IN  IF link = Exc
                 THEN Raise("lookup")
                 ELSE /\ fpapers' = DictSet(fpapers, paper_id,
                                            PaperRecord(result, OrNull(link)))
                      /\ hits' = Append(hits, paper_id)
                      /\ lookups' = Append(lookups, clean_id(paper_id))
                      /\ usable' = Append(usable, HasOfficialUrl(response))
                      /\ UNCHANGED << pc, outcome, done, locals >>
    /\ UNCHANGED << env, config, cur, files, searched, before, history >>

\* The iteration over client.results(search) raises (a network error, a
\* feed that cannot be parsed).
FetchFail ==
    /\ pc = "results"
    /\ Raise("fetch")
    /\ UNCHANGED << env, config, cur, files, searched, before, history >>

\* Lines 89-91: the results are exhausted, the count is printed and the
\* function ends without a return statement: the caller gets None.
FetchReturn ==
    /\ pc = "results"
    /\ papers' = PyNone
    /\ fpapers' = <<>>
    /\ Advance("fetch")
    /\ UNCHANGED << env, config, cur, files, existing_data, merged_data, hits,
                    lookups, usable, searched, before, history >>

\* Lines 104-108: the existing store, {} without the file.
LoadExisting ==
    /\ pc = "load"
    /\ LET file == json[DirOf(CatConfig["json_path"])]
           loaded == IF file = NoFile THEN PyDict(<<>>) ELSE JsonLoad(file)
       IN  IF loaded = Exc
           THEN Raise("load")
           ELSE /\ existing_data' = loaded
                /\ Advance("load")
                /\ UNCHANGED << papers, merged_data, fetchVars >>
    /\ UNCHANGED << env, config, cur, files, searched, before, history >>

\* Line 111.
Merge ==
    /\ pc = "merge"
    /\ LET merged == MergedData(papers, existing_data)
       IN  IF merged = Exc
           THEN Raise("merge")
           ELSE /\ merged_data' = merged
                /\ Advance("merge")
                /\ UNCHANGED << papers, existing_data, fetchVars >>
    /\ UNCHANGED << env, config, cur, files, searched, before, history >>

\* Lines 113-115: the merged store is written to json_path; OSError when the
\* file cannot be opened for writing.
Persist ==
    /\ pc = "persist"
    /\ \/ /\ json' = [json EXCEPT ![DirOf(CatConfig["json_path"])] =
                                        JsonDump(merged_data.v)]
          /\ lastFetched' = papers
          /\ Advance("persist")
          /\ UNCHANGED << locals, fetchVars >>
       \/ /\ Raise("persist")
          /\ UNCHANGED << json, lastFetched >>
    /\ UNCHANGED << env, config, cur, dirs, md, searched, before, repeat >>

\* Lines 117-122 and generate_markdown: the table is built and written to
\* md_path; OSError when the file cannot be opened for writing.
Render ==
    /\ pc = "render"
    /\ \/ /\ md' = [md EXCEPT ![DirOf(CatConfig["md_path"])] =
                        MdFile(generate_markdown(merged_data.v,
                                                 DirOf(CatConfig["output_dir"])))]
          /\ Advance("render")
          /\ UNCHANGED << locals, fetchVars >>
       \/ /\ Raise("render")
          /\ UNCHANGED md
    /\ UNCHANGED << env, config, cur, dirs, json, searched, before, history >>

\* ----------------------------------------------- the updater on its own
\* The dicts of at most n entries drawn from `entries`, keys distinct.
Dicts(entries, n) ==
    { d \in UNION { [1..m -> entries] : m \in 0..n } :
        \A i, j \in DOMAIN d : d[i][1] = d[j][1] => i = j }

\* Records the fetcher builds, for three of the identifiers: with and without
\* a code link.
StubIds == { <<"1", "v", "1">>, <<"1", "v", "2">>, <<"2", "v", "1">> }
StubEntries ==
    { <<id, PaperRecord(Result(id), OrNull(get_code_link(response)))>> :
        id \in StubIds, response \in Responses }

\* What a call of fetch_papers can hand to update_category_data when
\* update_category_data is run with the fetcher replaced: None, as the
\* fetcher of this file does, or a mapping from identifier to record.
StubResults ==
    { PyNone } \cup { PyDict(d) : d \in Dicts(StubEntries, MaxFetched) }

\* A stub of one record at most, for the runs of main over every category.
DriverStubs ==
    { PyNone, PyDict(<<>>) } \cup { PyDict(<<e>>) : e \in StubEntries }

StubValues(stub) == IF stub = "driver" THEN DriverStubs ELSE StubResults

\* Lines 99-102 with fetch_papers replaced by a stub: the arguments are
\* read, the call raises or returns one of the stub's values.
FetchStub ==
    /\ pc = "fetch"
    /\ \/ /\ FetchArgsOk
          /\ \E p \in StubValues(stubs) :
                /\ papers' = p
                /\ repeat' = (p = lastFetched)
          /\ Advance("fetch")
          /\ UNCHANGED << existing_data, merged_data, fetchVars >>
       \/ /\ Raise("fetch")
          /\ UNCHANGED repeat
    /\ lastFetched' = PyUnset
    /\ UNCHANGED << env, config, cur, files, searched, before >>

\* The program is started again on the same configuration.
NextRun ==
    /\ pc = "exit"
    /\ pc' = "main"
    /\ cur' = 0
    /\ outcome' = [c \in Cats |-> NotRun]
    /\ searched' = {}
    /\ UNCHANGED << env, config, files, locals, fetchVars, done, before,
                    history >>

\* ----------------------------------------------------------------- Init
\* The README.md that can lie beside a papers.json: none, or the rendering
\* of that store.
MdFor(file, c) ==
    { NoFile } \cup
    IF file.k = "object" THEN { MdFile(generate_markdown(file.v, c)) } ELSE {}

InitCommon ==
    /\ cur = 0
    /\ papers = PyUnset
    /\ existing_data = PyUnset
    /\ merged_data = PyUnset
    /\ fpapers = <<>>
    /\ hits = <<>>
    /\ lookups = <<>>
    /\ usable = <<>>
    /\ searched = {}
    /\ outcome = [c \in Cats |-> NotRun]
    /\ done = {}
    /\ before = NoFiles
    /\ lastFetched = PyUnset
    /\ repeat = FALSE

\* A store left by an earlier run.
OldStore ==
    << << <<"1", "v", "1">>,
          PaperRecord(Result(<<"1", "v", "1">>), PyStr("null")) >> >>

\* The whole program: any config file; each category has no store yet or a
\* store that is not JSON.
Init ==
    /\ InitCommon
    /\ configFile \in ConfigFiles
    /\ stubs = "none"
    /\ config = PyUnset
    /\ pc = "start"
    /\ json \in [Cats -> {NoFile, Corrupt}]
    /\ md = [c \in Cats |->
                IF json[c].k = "object"
                THEN MdFile(generate_markdown(json[c].v, c)) ELSE NoFile]
    /\ dirs = {c \in Cats : json[c] # NoFile}

Next ==
    \/ LoadConfig
    \/ MainNext
    \/ MakeDirs
    \/ FetchCall
    \/ FetchHit
    \/ FetchFail
    \/ FetchReturn
    \/ LoadExisting
    \/ Merge

Spec == Init /\ [][Next]_vars

\* A valid configuration of the categories 1..n.
ValidConfigFile(n) ==
    [file |-> "yaml",
     doc  |-> [k |-> "map",
               v |-> [f \in {"categories", "max_results"} |->
                        IF f = "max_results" THEN MaxResults
                        ELSE [c \in 1..n |-> Entry(c, {"query", "output_dir"})]]]]

\* update_category_data on one category, the fetcher replaced by a stub, run
\* after run: a valid configuration of one category, any store before the
\* first run.
InitUpdate ==
    /\ InitCommon
    /\ configFile = ValidConfigFile(1)
    /\ stubs = "update"
    /\ config = load_config(configFile)
    /\ pc = "main"
    /\ \E file \in {NoFile, Corrupt, ArrayFile}
                   \cup {JsonDump(d) : d \in Dicts(StubEntries, MaxStored)} :
          /\ json = [c \in Cats |-> IF c = 1 THEN file ELSE NoFile]
          /\ \E m \in MdFor(file, 1) :
                md = [c \in Cats |-> IF c = 1 THEN m ELSE NoFile]
    /\ dirs = {c \in Cats : json[c] # NoFile}

NextUpdate ==
    \/ MainNext
    \/ MakeDirs
    \/ FetchStub
    \/ LoadExisting
    \/ Merge
    \/ Persist
    \/ Render
    \/ NextRun

SpecUpdate == InitUpdate /\ [][NextUpdate]_vars

\* main over all the categories, the fetcher replaced by a stub that raises
\* or returns None, an empty mapping or a mapping of one record; one run.
\* Each category has no store, a store that is not JSON, or an earlier one.
InitDriver ==
    /\ InitCommon
    /\ configFile = ValidConfigFile(NumCats)
    /\ stubs = "driver"
    /\ config = load_config(configFile)
    /\ pc = "main"
    /\ json \in [Cats -> {NoFile, Corrupt, JsonDump(OldStore)}]
    /\ md = [c \in Cats |->
                IF json[c].k = "object"
                THEN MdFile(generate_markdown(json[c].v, c)) ELSE NoFile]
    /\ dirs = {c \in Cats : json[c] # NoFile}

NextDriver ==
    \/ MainNext
    \/ MakeDirs
    \/ FetchStub
    \/ LoadExisting
    \/ Merge
    \/ Persist
    \/ Render

SpecDriver == InitDriver /\ [][NextDriver]_vars

\* ------------------------------------------------------------ properties
IsDigit(c) == c \in {"0", "1", "2", "3", "4", "5", "6", "7", "8", "9"}

\* The identifier without its trailing version suffix: a v followed by
\* digits up to the end.
StripVersion(id) ==
    LET at == {i \in DOMAIN id :
                  /\ id[i] = "v"
                  /\ i < Len(id)
                  /\ \A j \in (i + 1)..Len(id) : IsDigit(id[j])}
    IN  IF at = {} THEN id ELSE SubSeq(id, 1, (CHOOSE i \in at : TRUE) - 1)

\* C1: after a call that wrote the store, every identifier that was both
\* fetched and already stored has the fetched record in the store.
C1_NewWins ==
    ("persist" \in done /\ IsDict(papers) /\ before.json.k = "object")
    => /\ json[cur].k = "object"
       /\ \A id \in Keys(papers.v) \cap Keys(before.json.v) :
             Get(json[cur].v, id) = Get(papers.v, id)

\* C2: once fetch_papers has returned, its caller holds a mapping with one
\* record per hit of the search.
C2_FetchReturnsMapping ==
    pc \in {"load", "merge"}
    => /\ IsDict(papers)
       /\ Len(papers.v) = Len(hits)
       /\ Keys(papers.v) = Range(hits)

\* C3: during and after a call of the updater, every identifier the store
\* held when the call began is still in the store, and its record differs
\* only if the call fetched that identifier and wrote the store.
C3_NoRecordDropped ==
    (cur >= 1 /\ before.json.k = "object")
    => /\ json[cur].k = "object"
       /\ \A id \in Keys(before.json.v) :
             /\ id \in Keys(json[cur].v)
             /\ Get(json[cur].v, id) # Get(before.json.v, id)
                => /\ "persist" \in done
                   /\ IsDict(lastFetched)
                   /\ id \in Keys(lastFetched.v)

C3_Witness ==
    /\ "persist" \in done
    /\ before.json.k = "object"
    /\ IsDict(lastFetched)
    /\ \E id \in Keys(before.json.v) \cap Keys(lastFetched.v) :
          Get(before.json.v, id) # Get(lastFetched.v, id)
    /\ Keys(before.json.v) \ Keys(lastFetched.v) # {}
    /\ Keys(lastFetched.v) \ Keys(before.json.v) # {}

\* C4: an exception in one category never ends the process, and when main
\* is through, every category of the configuration has been run, and each
\* one that completed has its papers.json and its README.md.
C4_Isolation ==
    /\ (config # Exc => pc # "aborted")
    /\ pc = "exit"
       => \A c \in DOMAIN config.v["categories"] :
             /\ outcome[c].at \notin {"pending", "running"}
             /\ outcome[c].ok => json[c].k = "object" /\ md[c].k = "file"

C4_Witness ==
    /\ pc = "exit"
    /\ ~outcome[1].ok
    /\ outcome[1].at = "fetch"
    /\ outcome[2].ok
    /\ before = NoFiles
    /\ json[1] = NoFile
    /\ json[2].k = "object"
    /\ md[2].k = "file"

\* C5: a call that fetches the same as the call before it, which wrote the
\* store, writes a store equal to the one it found.
C5_Idempotent ==
    (repeat /\ "persist" \in done) => json[cur] = before.json

C5_Witness ==
    /\ repeat
    /\ "persist" \in done
    /\ IsDict(lastFetched)
    /\ Len(lastFetched.v) >= 2
    /\ Len(json[cur].v) > Len(lastFetched.v)

\* C6: no lookup ends the batch, every hit gets its record, and the record
\* of a hit whose lookup raised or held no official url has the code "null".
C6_LookupFailureRecovered ==
    /\ \A c \in Cats : outcome[c].at # "lookup"
    /\ pc = "results"
       => /\ Len(fpapers) = Len(hits)
          /\ \A i \in DOMAIN hits :
                /\ fpapers[i][1] = hits[i]
                /\ ~usable[i] => fpapers[i][2].code = PyStr("null")

C6_Witness ==
    /\ pc = "results"
    /\ Len(hits) >= 2
    /\ ~usable[1]
    /\ fpapers[1][2].code = PyStr("null")
    /\ usable[2]
    /\ fpapers[2][2].code = PyStr(CodeUrl)

\* No output directory has been made, no search issued, no file written:
\* the directories are those of the stores that were there at the start.
NoProcessing ==
    /\ searched = {}
    /\ dirs = {c \in Cats : json[c] # NoFile}
    /\ \A c \in Cats :
          /\ json[c].k # "object"
          /\ md[c] = NoFile

\* The config file is missing, unparseable or not of the documented shape.
Malformed(file) ==
    \/ file.file # "yaml"
    \/ file.doc.k # "map"
    \/ "categories" \notin DOMAIN file.doc.v
    \/ "max_results" \notin DOMAIN file.doc.v
    \/ \E c \in DOMAIN file.doc.v["categories"] :
          {"query", "output_dir"} \ DOMAIN file.doc.v["categories"][c] # {}

\* The config file is missing, unparseable, no mapping, without categories,
\* or has an entry without output_dir.
LoaderRejects(file) ==
    \/ file.file # "yaml"
    \/ file.doc.k # "map"
    \/ "categories" \notin DOMAIN file.doc.v
    \/ \E c \in DOMAIN file.doc.v["categories"] :
          "output_dir" \notin DOMAIN file.doc.v["categories"][c]

\* C7 as stated: with a malformed config file nothing is ever processed.
C7_MalformedIsFatal == Malformed(configFile) => NoProcessing

\* C7 amended: with a config file that is missing, unparseable, no mapping,
\* without categories or with an entry without output_dir, the program ends
\* in load_config and nothing is ever processed.
C7_LoaderRejectsIsFatal ==
    LoaderRejects(configFile)
    => /\ NoProcessing
       /\ pc \in {"start", "aborted"}
       /\ cur = 0
       /\ \A c \in Cats : outcome[c] = NotRun

C7_Witness ==
    /\ pc = "aborted"
    /\ configFile.file = "yaml"
    /\ configFile.doc.k = "map"
    /\ "categories" \in DOMAIN configFile.doc.v
    /\ "output_dir" \in DOMAIN configFile.doc.v["categories"][1]
    /\ "output_dir" \notin DOMAIN configFile.doc.v["categories"][NumCats]

\* C8: the identifier of every lookup, and in every pdf link, is the hit's
\* identifier without its trailing version suffix.
C8_CanonicalId ==
    pc = "results"
    => \A i \in DOMAIN hits :
          /\ lookups[i] = StripVersion(hits[i])
          /\ fpapers[i][2].pdf = <<ARXIV_URL, "abs/">> \o StripVersion(hits[i])

\* The rows of a README.md: the lines after the four of the header.
Rows(file) == SubSeq(file.content, 5, Len(file.content))

\* C9: the table written for a merged store has one row per entry, and no
\* row has a smaller date than a row after it.
C9_TableRows ==
    ("render" \in done /\ IsDict(merged_data))
    => LET rows == Rows(md[cur])
       IN  /\ Len(rows) = Len(merged_data.v)
           /\ \A i, j \in DOMAIN rows :
                 i < j => ~StrLess(rows[i][1], rows[j][1])

C9_Witness ==
    /\ "render" \in done
    /\ IsDict(merged_data)
    /\ Len(Rows(md[cur])) >= 3
    /\ \E i \in 1..2 : Rows(md[cur])[i][1] = Rows(md[cur])[i + 1][1]
    /\ \E i \in 1..2 : StrLess(Rows(md[cur])[i + 1][1], Rows(md[cur])[i][1])
    /\ \E i \in 1..2 : StrLess(merged_data.v[i][2].updated,
                               merged_data.v[i + 1][2].updated)

\* C10: in a call of the updater the store is written only after the fetch
\* and the load, the README only after the store; until then each file is
\* as it was when the call began, so also after a failed fetch or load.
C10_WritesAfterReads ==
    (cur >= 1 /\ pc # "exit")
    => /\ "persist" \in done => {"fetch", "load"} \subseteq done
       /\ "render" \in done => "persist" \in done
       /\ "persist" \notin done => json[cur] = before.json
       /\ "render" \notin done => md[cur] = before.md
       /\ outcome[cur].at \in {"fetch", "load"}
          => json[cur] = before.json /\ md[cur] = before.md

C10_Witness ==
    /\ cur >= 1
    /\ pc = "main"
    /\ outcome[cur].at = "fetch"
    /\ before.json.k = "object"
    /\ Len(before.json.v) >= 2
    /\ before.md.k = "file"
    /\ json[cur] = before.json
    /\ md[cur] = before.md

====
